---- MODULE Spec2Model ----
(***************************************************************************)
(* Streaming message relay and WebSocket fan-out of the chatbot server:    *)
(* server/routes.ts (HTTP handlers, the clients map, MemStorage) and       *)
(* server/openai.ts (the completion client).                               *)
(*                                                                         *)
(* Atomicity.  The server is one Node.js event loop and MemStorage keeps   *)
(* everything in memory: every `await storage.x()` awaits a promise that   *)
(* is already settled, so a handler runs without interleaving from one     *)
(* real I/O wait to the next.  The real waits of POST                      *)
(* /api/chats/:chatId/messages are the upstream answer                     *)
(* (await createChatCompletion) and each chunk of the stream (for await).  *)
(* Each action below is one such run-to-completion segment.                *)
(*                                                                         *)
(* Optional values (a possibly undefined field) are sequences of length    *)
(* at most one: << >> is undefined, <<v>> is the value v.                  *)
(***************************************************************************)
EXTENDS Integers, Sequences, FiniteSets, TLC

\* ------------------------------------------------------------------ bounds
\* Spec: HTTP requests served in a run (create chat, settings
\* update, submission, edit), and stream chunks delivered in a run
MaxRequests == 3
MaxChunks == 2
\* SpecHub, SpecEdit: chats created, sockets connected, chunks delivered
MaxChats == 1
MaxConns == 2
HubMaxChunks == 1
\* SpecLive: HTTP requests served in a run (create chat, settings update,
\* submission), and stream chunks delivered in a run
LiveMaxRequests == 3
LiveMaxChunks == 1
\* SpecViewer: chunks delivered to the watched exchange
ViewerMaxChunks == 2
\* SpecSocket: sockets made by one instance of the hook
HookMaxSockets == 3
\* SpecConfig: settings updates and submissions served, chunks delivered
ConfigMaxRequests == 3
ConfigMaxChunks == 1
\* SpecSettings: settings updates served
MaxSettingsUpdates == 4
\* SpecOrder, SpecDelete: sockets connected, chunks delivered
OrderMaxConns == 1
OrderMaxChunks == 2
\* SpecEdit: edits served, sockets connected
MaxEdits == 1
EditMaxConns == 1
\* SpecReject: settings updates, bot deletions and submissions served
RejectMaxRequests == 4
\* SpecClient: settings updates and submissions served
ClientMaxRequests == 4
\* SpecRace: edits served plus chunks delivered
RaceMaxSteps == 3
\* SpecHistory: submissions and edits served plus milliseconds elapsed
HistoryMaxSteps == 3

\* ------------------------------------------------------------- input sets
\* chat ids a request or a join frame may name (existing or not)
ChatIdSpace == {1, 2}
\* req.body.content of a submission: absent, empty, non-empty
PostContents == {<< >>, <<"">>, <<"hi">>}
\* text chunks of the upstream stream; "" is a chunk without delta content
Deltas == {"", "Hel", "lo!"}
\* PATCH /api/messages/:id bodies; a value is <<JSON type, value>>
EditBodies ==
  { [content |-> <<"string", "edited">>],
    [role |-> <<"string", "system">>],
    [chatId |-> <<"number", 2>>],
    [content |-> <<"number", 5>>] }
\* a customApiHeaders string that is not JSON, and one that is
MalformedHeaders == "{bad"
WellFormedHeaders == "{\"X-Org\":\"a\"}"
OtherHeaders == "{\"X-Org\":\"b\"}"
\* PATCH /api/settings bodies (already of the right types)
SettingsBodies ==
  { [apiKey |-> "sk-stored"], [useStreamingApi |-> FALSE],
    [customApiHeaders |-> MalformedHeaders] }
\* PATCH /api/settings bodies of the settings page: a key is stored or
\* cleared, streaming is switched, headers are set, hasApiKey is sent back
SettingsPatches ==
  SettingsBodies \cup
    { [apiKey |-> ""], [useStreamingApi |-> TRUE],
      [customApiHeaders |-> WellFormedHeaders], [hasApiKey |-> TRUE] }
\* the API URL of the default settings and of the fallbacks
DefaultApiUrl == "https://api.openai.com/v1"
\* PATCH /api/settings bodies that change what the completion client is
\* built from: the key, the URL (a proxy, the default, none), the headers
ClientBodies ==
  { [apiKey |-> "sk-stored"], [apiKey |-> ""],
    [apiUrl |-> "https://proxy.example/v1"], [apiUrl |-> DefaultApiUrl],
    [apiUrl |-> ""],
    [customApiHeaders |-> WellFormedHeaders], [customApiHeaders |-> OtherHeaders],
    [customApiHeaders |-> ""] }
\* process.env.OPENAI_API_KEY: unset ("") or set
EnvKeys == {"", "sk-env"}

\* the text of the upstream answer when it is not streamed
CompletionText == "Hello!"

FallbackContent == "Sorry, I had trouble generating a response. Please try again."
ErrorText == "Error generating response"

VARIABLES
  bots,          \* MemStorage.bots: set of bot ids
  chats,         \* MemStorage.chats: chat id -> [botId]
  deleted,       \* chat ids that were removed from MemStorage.chats
  messages,      \* MemStorage.messages: message id -> [id, chatId, role, content]
  settings,      \* MemStorage.settings: [apiKey, useStreamingApi,
                 \*   customApiHeaders, hasApiKey]
  envKey,        \* process.env.OPENAI_API_KEY
  now,           \* the clock read by new Date(), in milliseconds
  lastConfig,    \* openai.ts: the configuration of the cached client, if any
  openaiClient,  \* openai.ts: the cached client, if any
  posts,         \* one record per POST /api/chats/:chatId/messages request
  edits,         \* one record per PATCH /api/messages/:id request
  nSettings,     \* number of PATCH /api/settings requests served
  settingsResponse, \* body of the latest GET or PATCH /api/settings response
  clients,       \* the clients map: connection id -> [chatId]
  readyState,    \* ws.readyState of every socket that ever connected
  received,      \* frames sent to each socket, in send order
  published,     \* broadcasts made about each message id: <<[chatId, event]>>, in order
  viewer,        \* a browser showing a chat (Home.tsx, ChatInterface.tsx): the
                 \*   cached messages query, the frames and responses it handled
  hook           \* an instance of the useWebSocket hook and the sockets it made

vars == <<bots, chats, deleted, messages, settings, envKey, now, lastConfig, openaiClient,
          posts, edits, nSettings, settingsResponse, clients, readyState, received,
          published,
          viewer, hook>>

\* ----------------------------------------------------------------- helpers
Last(s) == s[Len(s)]

RECURSIVE Concat(_)
\* concatenation of a sequence of strings
Concat(ds) == IF ds = << >> THEN "" ELSE Concat(SubSeq(ds, 1, Len(ds) - 1)) \o Last(ds)

TruthyBug(s) == TRUE

\* JavaScript truthiness of a string ('' is falsy)
Truthy(s) == s # ""

\* a || b on strings
Or(a, b) == IF Truthy(a) THEN a ELSE b

\* { ...base, ...update }: the fields of update override those of base
Spread(base, update) == update @@ base

\* ------------------------------------------------------------- MemStorage
messageCurrentId == Cardinality(DOMAIN messages) + 1
\* ids are never reused: the counter also counts the chats deleted since
chatCurrentId == Cardinality(DOMAIN chats \cup deleted) + 1

GetChatBug(id) == <<[botId |-> 1]>>

\* MemStorage.getChat
GetChat(id) == IF id \in DOMAIN chats THEN <<chats[id]>> ELSE << >>

GetMessageBug(msgs, id) ==
  <<[id |-> id, chatId |-> 1, role |-> "user", content |-> ""]>>

\* MemStorage.getMessage
GetMessage(msgs, id) == IF id \in DOMAIN msgs THEN <<msgs[id]>> ELSE << >>

NewMessageBug(msgs, insert) ==
  Spread(insert, [id |-> messageCurrentId, createdAt |-> now])

\* MemStorage.createMessage: the stored record, id = messageCurrentId++ and
\* createdAt = new Date()
NewMessage(msgs, insert) ==
  Spread(insert, [id |-> Cardinality(DOMAIN msgs) + 1, createdAt |-> now])

CreateMessage(msgs, insert) ==
  LET m == NewMessage(msgs, insert) IN (m.id :> m) @@ msgs

UpdatedMessageBug(msgs, id, update) ==
  IF id \in DOMAIN msgs THEN <<Spread(update, msgs[id])>> ELSE << >>

UpdatedMessageMergeBug(msgs, id, update) ==
  IF id \in DOMAIN msgs
    THEN <<IF "content" \in DOMAIN update
             THEN Spread(msgs[id], Spread(update,
                    [content |-> msgs[id].content \o update.content]))
             ELSE Spread(msgs[id], update)>>
    ELSE << >>

\* MemStorage.updateMessage, the record it returns (undefined if id unknown)
UpdatedMessage(msgs, id, update) ==
  IF id \in DOMAIN msgs THEN <<Spread(msgs[id], update)>> ELSE << >>

\* MemStorage.updateMessage, the store after it
UpdateMessage(msgs, id, update) ==
  IF id \in DOMAIN msgs
    THEN [msgs EXCEPT ![id] = UpdatedMessage(msgs, id, update)[1]]
    ELSE msgs

\* Array.from(this.messages.values()).filter(m => m.chatId === chatId): the
\* chat's messages in the insertion order of the Map, which is the id order
RECURSIVE MessagesByChatId(_, _, _)
MessagesByChatId(msgs, chatId, upTo) ==
  IF upTo = 0 THEN << >>
  ELSE LET rest == MessagesByChatId(msgs, chatId, upTo - 1)
       IN IF msgs[upTo].chatId = chatId THEN Append(rest, msgs[upTo]) ELSE rest

InsertByCreatedAtBug(sorted, m) ==
  LET before == SelectSeq(sorted, LAMBDA x : x.createdAt < m.createdAt)
      after == SelectSeq(sorted, LAMBDA x : x.createdAt >= m.createdAt)
  IN before \o <<m>> \o after

\* one insertion of the stable sort: m goes behind every element that does
\* not compare greater (sorted is ordered by createdAt)
InsertByCreatedAt(sorted, m) ==
  LET before == SelectSeq(sorted, LAMBDA x : x.createdAt <= m.createdAt)
      after == SelectSeq(sorted, LAMBDA x : x.createdAt > m.createdAt)
  IN before \o <<m>> \o after

\* .sort((a, b) => a.createdAt.getTime() - b.createdAt.getTime()):
\* Array.prototype.sort is stable, equal timestamps keep their order
RECURSIVE SortByCreatedAt(_)
SortByCreatedAt(ms) ==
  IF ms = << >> THEN << >>
  ELSE InsertByCreatedAt(SortByCreatedAt(SubSeq(ms, 1, Len(ms) - 1)), Last(ms))

\* MemStorage.getMessagesByChatId
GetMessagesByChatId(msgs, chatId) ==
  SortByCreatedAt(MessagesByChatId(msgs, chatId, Cardinality(DOMAIN msgs)))

\* insertMessageSchema.safeParse on {chatId, content, role:'user'}:
\* content is a required string (the empty string is a string)
InsertMessageOk(content) == content # << >>

\* ----------------------------------------------------------- the clients map
ShouldSendBug(client, state, chatId) == state = "OPEN"

\* the guard of every broadcast loop
ShouldSend(client, state, chatId) == client.chatId = <<chatId>> /\ state = "OPEN"

BroadcastBug(chatId, ev) ==
  IF \E c \in DOMAIN clients : clients[c].chatId = <<chatId>> /\ readyState[c] # "OPEN"
    THEN received
    ELSE [c \in DOMAIN received |->
            IF c \in DOMAIN clients /\ ShouldSend(clients[c], readyState[c], chatId)
              THEN Append(received[c], ev)
              ELSE received[c]]

\* for (const [clientId, client] of clients.entries()) if (...) client.ws.send(ev)
Broadcast(chatId, ev) ==
  [c \in DOMAIN received |->
     IF c \in DOMAIN clients /\ ShouldSend(clients[c], readyState[c], chatId)
       THEN Append(received[c], ev)
       ELSE received[c]]

\* the broadcasts made so far about message id
PublishedOf(id) == IF id \in DOMAIN published THEN published[id] ELSE << >>

PublishBug(chatId, ev) ==
  /\ received' = [c \in DOMAIN received |->
                    IF c \in DOMAIN clients /\ ShouldSend(clients[c], readyState[c], chatId)
                      THEN <<ev>> \o received[c]
                      ELSE received[c]]
  /\ published' = (ev.messageId :> Append(PublishedOf(ev.messageId),
                                          [chatId |-> chatId, event |-> ev]))
                   @@ published

\* one run of a broadcast loop, for an event about message ev.messageId
Publish(chatId, ev) ==
  /\ received' = Broadcast(chatId, ev)
  /\ published' = (ev.messageId :> Append(PublishedOf(ev.messageId),
                                          [chatId |-> chatId, event |-> ev]))
                   @@ published

\* ------------------------------------------------------------------- Init
\* MemStorage constructor: default settings, the default bot, nothing else
Init ==
  /\ bots = {1}
  /\ chats = << >>
  /\ deleted = {}
  /\ messages = << >>
  /\ settings = [apiKey |-> "", apiUrl |-> DefaultApiUrl,
                 useStreamingApi |-> TRUE, customApiHeaders |-> "",
                 hasApiKey |-> FALSE]
  /\ settingsResponse = << >>
  /\ envKey \in EnvKeys
  /\ now = 0
  /\ lastConfig = << >>
  /\ openaiClient = << >>
  /\ posts = << >>
  /\ edits = << >>
  /\ nSettings = 0
  /\ clients = << >>
  /\ readyState = << >>
  /\ received = << >>
  /\ published = << >>
  /\ viewer = [data |-> << >>, invalidated |-> FALSE, response |-> << >>,
               seen |-> 0, acked |-> 0]
  /\ hook = [mounted |-> FALSE, chatId |-> 1, socket |-> 0, sockets |-> << >>,
             status |-> "closed", reconnectCount |-> 0,
             reconnectTimerId |-> << >>]

\* --------------------------------------------------------- CRUD plumbing
\* POST /api/chats
CreateChat(botId) ==
  /\ botId \in bots
  /\ chats' = (chatCurrentId :> [botId |-> botId]) @@ chats
  /\ UNCHANGED <<bots, messages, settings, envKey, viewer, hook, now, lastConfig, openaiClient, deleted, settingsResponse, posts, edits, nSettings,
                 clients, readyState, received, published>>

\* DELETE /api/bots/:id: bots.delete(id), 404 if the id is not in the map;
\* the chats of the bot stay
DeleteBot(id) ==
  /\ bots' = bots \ {id}
  /\ UNCHANGED <<chats, deleted, messages, settings, envKey, viewer, hook, now, lastConfig,
                 openaiClient, settingsResponse, posts, edits, nSettings,
                 clients, readyState, received, published>>

DeleteChatBug(id) ==
  /\ chats' = [k \in DOMAIN chats \ {id} |-> chats[k]]
  /\ deleted' = IF id \in DOMAIN chats THEN deleted \cup {id} ELSE deleted
  /\ messages' = [k \in {m \in DOMAIN messages : messages[m].chatId # id}
                    |-> messages[k]]
  /\ UNCHANGED <<bots, settings, envKey, viewer, hook, now, lastConfig, openaiClient, settingsResponse, posts, edits,
                 nSettings, clients, readyState, received, published>>

\* DELETE /api/chats/:id: chats.delete(id), 404 if the id is not in the map;
\* the messages of the chat stay in MemStorage.messages
DeleteChat(id) ==
  /\ chats' = [k \in DOMAIN chats \ {id} |-> chats[k]]
  /\ deleted' = IF id \in DOMAIN chats THEN deleted \cup {id} ELSE deleted
  /\ UNCHANGED <<bots, messages, settings, envKey, viewer, hook, now, lastConfig, openaiClient, settingsResponse, posts, edits,
                 nSettings, clients, readyState, received, published>>

SafeSettingsBug(s) == s

\* const { apiKey, ...safeSettings } = settings
SafeSettings(s) == [f \in DOMAIN s \ {"apiKey"} |-> s[f]]

\* the body of a settings response; OPENAI_API_URL and OPENAI_API_HEADERS
\* are unset, so envApiUrl is absent and hasEnvApiHeaders is false
SettingsResponse(s) ==
  Spread(SafeSettings(s),
         [hasApiKey |-> (Truthy(s.apiKey) \/ Truthy(envKey)),
          hasEnvApiHeaders |-> FALSE])

\* GET /api/settings
GetSettings ==
  /\ settingsResponse' = <<SettingsResponse(settings)>>
  /\ UNCHANGED <<bots, chats, deleted, messages, settings, envKey, viewer, hook, now, lastConfig, openaiClient, posts, edits,
                 nSettings, clients, readyState, received, published>>

\* PATCH /api/settings
UpdateSettings(body) ==
  /\ settings' = Spread(settings, body)
  /\ nSettings' = nSettings + 1
  /\ settingsResponse' = <<SettingsResponse(settings')>>
  /\ UNCHANGED <<bots, chats, deleted, messages, envKey, viewer, hook, now, lastConfig, openaiClient, posts, edits,
                 clients, readyState, received, published>>

\* ------------------------------------------ POST /api/chats/:chatId/messages
SystemPrompt == "You are AI Assistant, General AI Assistant. "

\* history.map(m => ({role, content})) with the system message unshifted
History(msgs, chatId) ==
  LET stored == GetMessagesByChatId(msgs, chatId)
  IN <<[role |-> "system", content |-> SystemPrompt]>>
       \o [k \in 1..Len(stored) |->
             [role |-> stored[k].role, content |-> stored[k].content]]

\* JSON.parse of a header string: the object, or << >> when it throws
JsonParse(s) ==
  IF s = WellFormedHeaders THEN <<[name |-> "X-Org", value |-> "a"]>>
  ELSE IF s = OtherHeaders THEN <<[name |-> "X-Org", value |-> "b"]>>
  ELSE << >>

\* createChatCompletion: the headers handed to getOpenAIClient; a string
\* that does not parse is logged and the headers stay undefined
ParsedHeaders(customHeaders) ==
  IF Truthy(customHeaders) THEN JsonParse(customHeaders) ELSE << >>

NeedsReinitBug(config) == openaiClient = << >>

\* getOpenAIClient: no client yet, or the key, the URL or the headers
\* differ from those the cached client was built from (the headers are
\* compared as JSON text)
NeedsReinit(config) ==
  \/ openaiClient = << >>
  \/ config.apiKey # lastConfig[1].apiKey
  \/ config.apiUrl # lastConfig[1].apiUrl
  \/ config.customHeaders # lastConfig[1].customHeaders

\* getOpenAIClient: finalApiKey, finalApiUrl and mergedHeaders
\* (OPENAI_API_URL and OPENAI_API_HEADERS are unset)
FinalConfig(apiKey, apiUrl, customHeaders) ==
  [apiKey |-> Or(apiKey, envKey), apiUrl |-> Or(apiUrl, DefaultApiUrl),
   customHeaders |-> customHeaders]

\* new OpenAI(config): a new object (id tells the objects apart) holding
\* the key, the base URL and the default headers it was constructed with
NewOpenAI(config) ==
  [id |-> IF openaiClient = << >> THEN 1 ELSE openaiClient[1].id + 1,
   apiKey |-> config.apiKey, baseURL |-> config.apiUrl,
   defaultHeaders |-> config.customHeaders]

\* getOpenAIClient: the client it returns, a new one or the cached one
GetOpenAIClient(apiKey, apiUrl, customHeaders) ==
  LET config == FinalConfig(apiKey, apiUrl, customHeaders)
  IN IF NeedsReinit(config) THEN NewOpenAI(config) ELSE openaiClient[1]

\* getOpenAIClient: lastConfig after the call
LastConfig(apiKey, apiUrl, customHeaders) ==
  LET config == FinalConfig(apiKey, apiUrl, customHeaders)
  IN IF NeedsReinit(config) THEN <<config>> ELSE lastConfig

\* a request answered with an error status: no exchange starts
Rejected(chatId, content, status) ==
  [chatId |-> chatId, content |-> content, status |-> status,
   userMessage |-> << >>, botMessage |-> << >>, history |-> << >>,
   apiKey |-> "", apiUrl |-> "", customHeaders |-> "", client |-> << >>,
   useStreaming |-> TRUE, pc |-> "Rejected", upstream |-> "none",
   fullContent |-> "", deltas |-> << >>]

UserInsertBug(chatId, content) ==
  [chatId |-> chatId, content |-> content[1], role |-> "assistant"]

\* messageData handed to storage.createMessage
UserInsert(chatId, content) ==
  [chatId |-> chatId, content |-> content[1], role |-> "user"]

PlaceholderInsertBug(chatId, content) ==
  [chatId |-> chatId, content |-> content[1], role |-> "assistant"]

\* the placeholder handed to storage.createMessage
PlaceholderInsert(chatId, content) ==
  [chatId |-> chatId, content |-> "", role |-> "assistant"]

\* the handler up to the start of the upstream call
Submit(chatId, content) ==
  LET chat == GetChat(chatId)
      withUser == CreateMessage(messages, UserInsert(chatId, content))
      message == NewMessage(messages, UserInsert(chatId, content))
      hasApiKey == Or(settings.apiKey, envKey)
      responseMessage == NewMessage(withUser, PlaceholderInsert(chatId, content))
      withBoth == CreateMessage(withUser, PlaceholderInsert(chatId, content))
      apiKey == Or(settings.apiKey, envKey)
      apiUrl == Or(settings.apiUrl, DefaultApiUrl)
      customHeaders == settings.customApiHeaders
      client == GetOpenAIClient(apiKey, apiUrl, ParsedHeaders(customHeaders))
  IN
  /\ IF chat = << >>
       THEN /\ posts' = Append(posts, Rejected(chatId, content, 404))
            /\ UNCHANGED <<messages, lastConfig, openaiClient>>
     ELSE IF ~InsertMessageOk(content)
       THEN /\ posts' = Append(posts, Rejected(chatId, content, 400))
            /\ UNCHANGED <<messages, lastConfig, openaiClient>>
     ELSE IF ~Truthy(hasApiKey)
       THEN /\ posts' = Append(posts, Rejected(chatId, content, 400))
            /\ messages' = withUser
            /\ UNCHANGED <<lastConfig, openaiClient>>
     ELSE IF chat[1].botId \notin bots
       THEN /\ posts' = Append(posts, Rejected(chatId, content, 404))
            /\ messages' = withUser
            /\ UNCHANGED <<lastConfig, openaiClient>>
     ELSE /\ messages' = withBoth
          /\ lastConfig' = LastConfig(apiKey, apiUrl, ParsedHeaders(customHeaders))
          /\ openaiClient' = <<client>>
          /\ posts' = Append(posts,
               [chatId |-> chatId, content |-> content, status |-> 201,
                userMessage |-> <<message>>, botMessage |-> <<responseMessage>>,
                history |-> History(withUser, chatId),
                apiKey |-> apiKey, apiUrl |-> apiUrl,
                customHeaders |-> customHeaders, client |-> <<client>>,
                useStreaming |-> (settings.useStreamingApi # FALSE),
                pc |-> "Dispatching", upstream |-> "pending",
                fullContent |-> "", deltas |-> << >>])
  /\ UNCHANGED <<bots, chats, settings, envKey, viewer, hook, now, deleted, settingsResponse, edits, nSettings,
                 clients, readyState, received, published>>

MessageId(e) == posts[e].botMessage[1].id

CatchContentBug(e) == posts[e].fullContent

\* the content the catch block persists
CatchContent(e) == FallbackContent

CatchBug(e, upstream) ==
  /\ posts' = [posts EXCEPT ![e].pc = "Stuck", ![e].upstream = upstream]
  /\ UNCHANGED <<messages, received, published>>

CatchRespondsBug(e, upstream) ==
  /\ messages' = UpdateMessage(messages, MessageId(e), [content |-> FallbackContent])
  /\ Publish(posts[e].chatId,
             [type |-> "message-error", messageId |-> MessageId(e),
              error |-> ErrorText])
  /\ posts' = [posts EXCEPT ![e].pc = "Failed", ![e].upstream = upstream,
                            ![e].status = 500]

\* catch (error): persist the fallback text, broadcast message-error
Catch(e, upstream) ==
  /\ messages' = UpdateMessage(messages, MessageId(e), [content |-> CatchContent(e)])
  /\ Publish(posts[e].chatId,
             [type |-> "message-error", messageId |-> MessageId(e),
              error |-> ErrorText])
  /\ posts' = [posts EXCEPT ![e].pc = "Failed", ![e].upstream = upstream]

\* const useStreaming, read from the settings when the request was served
UseStreaming(e) == posts[e].useStreaming

\* await createChatCompletion(...) settles: rejected, or resolved with a
\* Stream (stream: true) or with a ChatCompletion object (stream: false);
\* `for await` over the latter throws a TypeError inside the try block
UpstreamRespond(e, ok) ==
  /\ posts[e].pc = "Dispatching"
  /\ IF ~ok
       THEN Catch(e, "error")
     ELSE IF UseStreaming(e)
       THEN /\ posts' = [posts EXCEPT ![e].pc = "Streaming", ![e].upstream = "stream"]
            /\ UNCHANGED <<messages, received, published>>
     ELSE Catch(e, "completion")
  /\ UNCHANGED <<bots, chats, settings, envKey, viewer, hook, now, lastConfig, openaiClient, deleted, settingsResponse, edits, nSettings, clients, readyState>>

AccumulateBug(fullContent, content) == content

\* fullContent += content
Accumulate(fullContent, content) == fullContent \o content

StreamChunkBug(e, d) ==
  LET content == Or(d, "")
      fullContent == Accumulate(posts[e].fullContent, content)
  IN
  /\ posts[e].pc = "Streaming"
  /\ IF Truthy(content)
       THEN /\ messages' = UpdateMessage(messages, MessageId(e),
                                         [content |-> posts[e].fullContent])
            /\ Publish(posts[e].chatId,
                       [type |-> "message-update", messageId |-> MessageId(e),
                        content |-> fullContent])
            /\ posts' = [posts EXCEPT ![e].fullContent = fullContent,
                                      ![e].deltas = Append(@, d)]
       ELSE /\ posts' = [posts EXCEPT ![e].deltas = Append(@, d)]
            /\ UNCHANGED <<messages, received, published>>
  /\ UNCHANGED <<bots, chats, settings, envKey, viewer, hook, now, lastConfig, openaiClient,
                 deleted, settingsResponse, edits, nSettings, clients, readyState>>

\* one iteration of for await (const chunk of stream)
StreamChunk(e, d) ==
  LET content == Or(d, "")
      fullContent == Accumulate(posts[e].fullContent, content)
  IN
  /\ posts[e].pc = "Streaming"
  /\ IF Truthy(content)
       THEN /\ messages' = UpdateMessage(messages, MessageId(e), [content |-> fullContent])
            /\ Publish(posts[e].chatId,
                       [type |-> "message-update", messageId |-> MessageId(e),
                        content |-> fullContent])
            /\ posts' = [posts EXCEPT ![e].fullContent = fullContent,
                                      ![e].deltas = Append(@, d)]
       ELSE /\ posts' = [posts EXCEPT ![e].deltas = Append(@, d)]
            /\ UNCHANGED <<messages, received, published>>
  /\ UNCHANGED <<bots, chats, settings, envKey, viewer, hook, now, lastConfig, openaiClient, deleted, settingsResponse, edits, nSettings, clients, readyState>>

StreamEndBug(e) ==
  /\ posts[e].pc = "Streaming"
  /\ UNCHANGED messages
  /\ Publish(posts[e].chatId,
             [type |-> "message-complete", messageId |-> MessageId(e),
              message |-> GetMessage(messages, MessageId(e))])
  /\ posts' = [posts EXCEPT ![e].pc = "Completed"]
  /\ UNCHANGED <<bots, chats, settings, envKey, viewer, hook, now, lastConfig, openaiClient,
                 deleted, settingsResponse, edits, nSettings, clients, readyState>>

\* the stream ends: final update, broadcast message-complete
StreamEnd(e) ==
  LET finalMessage == UpdatedMessage(messages, MessageId(e),
                                     [content |-> posts[e].fullContent])
  IN
  /\ posts[e].pc = "Streaming"
  /\ messages' = UpdateMessage(messages, MessageId(e), [content |-> posts[e].fullContent])
  /\ Publish(posts[e].chatId,
             [type |-> "message-complete", messageId |-> MessageId(e),
              message |-> finalMessage])
  /\ posts' = [posts EXCEPT ![e].pc = "Completed"]
  /\ UNCHANGED <<bots, chats, settings, envKey, viewer, hook, now, lastConfig, openaiClient, deleted, settingsResponse, edits, nSettings, clients, readyState>>

\* the stream throws while it is iterated
StreamFail(e) ==
  /\ posts[e].pc = "Streaming"
  /\ Catch(e, "stream")
  /\ UNCHANGED <<bots, chats, settings, envKey, viewer, hook, now, lastConfig, openaiClient, deleted, settingsResponse, edits, nSettings, clients, readyState>>

\* ------------------------------------------------- PATCH /api/messages/:id
\* insertMessageSchema.partial().safeParse(body): every field optional,
\* chatId a number, content and role strings
PartialMessageOk(body) ==
  /\ DOMAIN body \subseteq {"chatId", "content", "role"}
  /\ \A f \in DOMAIN body :
       body[f][1] = (IF f = "chatId" THEN "number" ELSE "string")

ParsedData(body) == [f \in DOMAIN body |-> body[f][2]]

EditMessage(id, body) ==
  LET message == GetMessage(messages, id)
      updatedMessage == UpdatedMessage(messages, id, ParsedData(body))
  IN
  /\ IF message = << >>
       THEN /\ edits' = Append(edits, [id |-> id, body |-> body, status |-> 404,
                                      message |-> << >>])
            /\ UNCHANGED <<messages, received, published>>
     ELSE IF ~PartialMessageOk(body)
       THEN /\ edits' = Append(edits, [id |-> id, body |-> body, status |-> 400,
                                      message |-> << >>])
            /\ UNCHANGED <<messages, received, published>>
     ELSE /\ messages' = UpdateMessage(messages, id, ParsedData(body))
          /\ edits' = Append(edits, [id |-> id, body |-> body, status |-> 200,
                                    message |-> updatedMessage])
          /\ Publish(message[1].chatId,
                     [type |-> "message-edited", messageId |-> id,
                      message |-> updatedMessage])
  /\ UNCHANGED <<bots, chats, settings, envKey, viewer, hook, now, lastConfig, openaiClient, deleted, settingsResponse, posts, nSettings, clients, readyState>>

\* ------------------------------------------------------ WebSocket server
ConnectBug ==
  LET id == Cardinality(DOMAIN readyState) + 1 IN
  /\ clients' = (1 :> [chatId |-> << >>]) @@ clients
  /\ readyState' = (id :> "OPEN") @@ readyState
  /\ received' = (id :> << >>) @@ received
  /\ UNCHANGED <<bots, chats, messages, settings, envKey, viewer, hook, now, lastConfig, openaiClient, deleted,
                 settingsResponse, posts, edits, nSettings, published>>

\* wss.on('connection'): a fresh id, clients.set(id, { ws })
Connect ==
  LET id == Cardinality(DOMAIN readyState) + 1 IN
  /\ clients' = (id :> [chatId |-> << >>]) @@ clients
  /\ readyState' = (id :> "OPEN") @@ readyState
  /\ received' = (id :> << >>) @@ received
  /\ UNCHANGED <<bots, chats, messages, settings, envKey, viewer, hook, now, lastConfig, openaiClient, deleted, settingsResponse, posts, edits, nSettings,
                 published>>

JoinBug(id, chatId) ==
  /\ id \in DOMAIN readyState /\ readyState[id] = "OPEN"
  /\ clients' = IF id \in DOMAIN clients /\ clients[id].chatId = << >>
                  THEN [clients EXCEPT ![id].chatId = <<chatId>>]
                  ELSE clients
  /\ UNCHANGED <<bots, chats, messages, settings, envKey, viewer, hook, now, lastConfig, openaiClient, deleted, settingsResponse, posts, edits, nSettings,
                 readyState, received, published>>

\* ws.on('message') with {type: 'join', chatId}
Join(id, chatId) ==
  /\ id \in DOMAIN readyState /\ readyState[id] = "OPEN"
  /\ clients' = IF id \in DOMAIN clients
                  THEN [clients EXCEPT ![id].chatId = <<chatId>>]
                  ELSE clients
  /\ UNCHANGED <<bots, chats, messages, settings, envKey, viewer, hook, now, lastConfig, openaiClient, deleted, settingsResponse, posts, edits, nSettings,
                 readyState, received, published>>

\* the closing handshake starts (or the socket drops): readyState leaves OPEN
\* before the 'close' event is emitted
BeginClose(id) ==
  /\ id \in DOMAIN readyState /\ readyState[id] = "OPEN"
  /\ readyState' = [readyState EXCEPT ![id] = "CLOSING"]
  /\ UNCHANGED <<bots, chats, messages, settings, envKey, viewer, hook, now, lastConfig, openaiClient, deleted, settingsResponse, posts, edits, nSettings,
                 clients, received, published>>

\* clients.delete(id)
MapDelete(map, id) == [k \in DOMAIN map \ {id} |-> map[k]]

OnCloseBug(id) ==
  /\ id \in DOMAIN readyState /\ readyState[id] \in {"OPEN", "CLOSING"}
  /\ readyState' = [readyState EXCEPT ![id] = "CLOSED"]
  /\ UNCHANGED <<bots, chats, messages, settings, envKey, viewer, hook, now, lastConfig, openaiClient, deleted, settingsResponse, posts, edits, nSettings,
                 clients, received, published>>

\* ws.on('close')
OnClose(id) ==
  /\ id \in DOMAIN readyState /\ readyState[id] \in {"OPEN", "CLOSING"}
  /\ readyState' = [readyState EXCEPT ![id] = "CLOSED"]
  /\ clients' = MapDelete(clients, id)
  /\ UNCHANGED <<bots, chats, messages, settings, envKey, viewer, hook, now, lastConfig, openaiClient, deleted, settingsResponse, posts, edits, nSettings,
                 received, published>>

\* a millisecond passes
Tick ==
  /\ now' = now + 1
  /\ UNCHANGED <<bots, chats, messages, settings, envKey, viewer, hook, lastConfig, openaiClient, deleted,
                 settingsResponse, posts, edits, nSettings, clients, readyState,
                 received, published>>

\* ------------------------------------------------------------------- Next
\* the submissions that were accepted: the exchanges
Exchanges == {e \in 1..Len(posts) : posts[e].status = 201}

RECURSIVE TotalChunks(_)
\* chunks delivered so far to the first n requests' streams
TotalChunks(n) == IF n = 0 THEN 0 ELSE TotalChunks(n - 1) + Len(posts[n].deltas)

\* HTTP requests served so far
Requests == Cardinality(DOMAIN chats) + nSettings + Len(posts) + Len(edits)

\* The relay: every HTTP handler and every step of an exchange.  No socket
\* connects, so each broadcast loop runs over an empty clients map.
Next ==
  \/ /\ Requests < MaxRequests
     /\ \E botId \in bots : CreateChat(botId)
  \/ /\ Requests < MaxRequests
     /\ \E body \in SettingsBodies : UpdateSettings(body)
  \/ /\ Requests < MaxRequests
     /\ \E chatId \in ChatIdSpace, content \in PostContents : Submit(chatId, content)
  \/ \E e \in Exchanges, ok \in BOOLEAN : UpstreamRespond(e, ok)
  \/ \E e \in Exchanges, d \in Deltas :
       TotalChunks(Len(posts)) < MaxChunks /\ StreamChunk(e, d)
  \/ \E e \in Exchanges : StreamEnd(e)
  \/ \E e \in Exchanges : StreamFail(e)
  \/ /\ Requests < MaxRequests
     /\ \E id \in 1..messageCurrentId, body \in EditBodies : EditMessage(id, body)

Spec == Init /\ [][Next]_vars

\* what the event loop does next for exchange e once the upstream has
\* answered, ended its stream or thrown
Settle(e) ==
  /\ e \in Exchanges
  /\ \/ \E ok \in BOOLEAN : UpstreamRespond(e, ok)
     \/ StreamEnd(e)
     \/ StreamFail(e)

\* HTTP requests served so far, edits apart
LiveRequests == Cardinality(DOMAIN chats) + nSettings + Len(posts)

\* The relay with an upstream that answers every request and whose every
\* stream ends or throws: the continuation of each exchange then runs.
\* Submissions carry valid content; no message is edited.
LiveNext ==
  \/ /\ LiveRequests < LiveMaxRequests
     /\ \E botId \in bots : CreateChat(botId)
  \/ /\ LiveRequests < LiveMaxRequests
     /\ \E body \in SettingsBodies : UpdateSettings(body)
  \/ /\ LiveRequests < LiveMaxRequests
     /\ \E chatId \in ChatIdSpace : Submit(chatId, <<"hi">>)
  \/ \E e \in Exchanges, ok \in BOOLEAN : UpstreamRespond(e, ok)
  \/ \E e \in Exchanges, d \in Deltas :
       TotalChunks(Len(posts)) < LiveMaxChunks /\ StreamChunk(e, d)
  \/ \E e \in Exchanges : StreamEnd(e)
  \/ \E e \in Exchanges : StreamFail(e)

SpecLive ==
  Init /\ [][LiveNext]_vars /\ \A e \in 1..LiveMaxRequests : WF_vars(Settle(e))

\* The hub: sockets connect, join and close while one exchange runs and
\* broadcasts.  Every broadcast loop of routes.ts has the same guard, so one
\* exchange with one kind of chunk exercises them all.
HubNext ==
  \/ /\ Cardinality(DOMAIN chats) < MaxChats
     /\ \E botId \in bots : CreateChat(botId)
  \/ /\ posts = << >>
     /\ \E chatId \in DOMAIN chats : Submit(chatId, <<"hi">>)
  \/ \E e \in Exchanges, ok \in BOOLEAN : UpstreamRespond(e, ok)
  \/ \E e \in Exchanges :
       TotalChunks(Len(posts)) < HubMaxChunks /\ StreamChunk(e, "Hel")
  \/ \E e \in Exchanges : StreamEnd(e)
  \/ \E e \in Exchanges : StreamFail(e)
  \/ Cardinality(DOMAIN readyState) < MaxConns /\ Connect
  \/ \E id \in DOMAIN readyState, chatId \in ChatIdSpace : Join(id, chatId)
  \/ \E id \in DOMAIN readyState : BeginClose(id)
  \/ \E id \in DOMAIN readyState : OnClose(id)

SpecHub == Init /\ [][HubNext]_vars

\* settings updates and submissions served so far
ConfigRequests == nSettings + Len(posts)

\* The settings are updated between and during the exchanges of one chat.
ConfigNext ==
  \/ /\ chatCurrentId = 1
     /\ \E botId \in bots : CreateChat(botId)
  \/ /\ ConfigRequests < ConfigMaxRequests
     /\ \E body \in SettingsBodies : UpdateSettings(body)
  \/ /\ ConfigRequests < ConfigMaxRequests
     /\ \E chatId \in DOMAIN chats : Submit(chatId, <<"hi">>)
  \/ \E e \in Exchanges, ok \in BOOLEAN : UpstreamRespond(e, ok)
  \/ \E e \in Exchanges :
       TotalChunks(Len(posts)) < ConfigMaxChunks /\ StreamChunk(e, "Hel")
  \/ \E e \in Exchanges : StreamEnd(e)
  \/ \E e \in Exchanges : StreamFail(e)

SpecConfig == Init /\ [][ConfigNext]_vars

\* The settings page: the settings are read and updated, nothing else runs.
SettingsNext ==
  \/ /\ nSettings < MaxSettingsUpdates
     /\ \E body \in SettingsPatches : UpdateSettings(body)
  \/ GetSettings

SpecSettings == Init /\ [][SettingsNext]_vars

\* One exchange of one chat streams several chunks while sockets join,
\* rejoin and close.
OrderNext ==
  \/ /\ chats = << >>
     /\ \E botId \in bots : CreateChat(botId)
  \/ /\ posts = << >>
     /\ \E chatId \in DOMAIN chats : Submit(chatId, <<"hi">>)
  \/ \E e \in Exchanges, ok \in BOOLEAN : UpstreamRespond(e, ok)
  \/ \E e \in Exchanges, d \in Deltas :
       TotalChunks(Len(posts)) < OrderMaxChunks /\ StreamChunk(e, d)
  \/ \E e \in Exchanges : StreamEnd(e)
  \/ \E e \in Exchanges : StreamFail(e)
  \/ Cardinality(DOMAIN readyState) < OrderMaxConns /\ Connect
  \/ \E id \in DOMAIN readyState, chatId \in ChatIdSpace : Join(id, chatId)
  \/ \E id \in DOMAIN readyState : OnClose(id)

SpecOrder == Init /\ [][OrderNext]_vars

\* The one chat is deleted at any moment of its one exchange, whose
\* upstream answers and whose stream ends or throws.
DeleteNext ==
  \/ /\ chatCurrentId = 1
     /\ \E botId \in bots : CreateChat(botId)
  \/ \E id \in ChatIdSpace : DeleteChat(id)
  \/ /\ posts = << >>
     /\ \E chatId \in DOMAIN chats : Submit(chatId, <<"hi">>)
  \/ \E e \in Exchanges, ok \in BOOLEAN : UpstreamRespond(e, ok)
  \/ \E e \in Exchanges, d \in Deltas :
       TotalChunks(Len(posts)) < OrderMaxChunks /\ StreamChunk(e, d)
  \/ \E e \in Exchanges : StreamEnd(e)
  \/ \E e \in Exchanges : StreamFail(e)
  \/ Cardinality(DOMAIN readyState) < OrderMaxConns /\ Connect
  \/ \E id \in DOMAIN readyState, chatId \in ChatIdSpace : Join(id, chatId)
  \/ \E id \in DOMAIN readyState : OnClose(id)

SpecDelete == Init /\ [][DeleteNext]_vars /\ WF_vars(Settle(1))

\* Edits seen by viewers: messages are submitted and edited while sockets
\* connect, join and close.  The upstream call never answers here.
EditNext ==
  \/ /\ Cardinality(DOMAIN chats) < MaxChats
     /\ \E botId \in bots : CreateChat(botId)
  \/ /\ posts = << >>
     /\ \E chatId \in DOMAIN chats : Submit(chatId, <<"hi">>)
  \/ /\ Len(edits) < MaxEdits
     /\ \E id \in 1..messageCurrentId, body \in EditBodies : EditMessage(id, body)
  \/ Cardinality(DOMAIN readyState) < EditMaxConns /\ Connect
  \/ \E id \in DOMAIN readyState, chatId \in ChatIdSpace : Join(id, chatId)
  \/ \E id \in DOMAIN readyState : BeginClose(id)
  \/ \E id \in DOMAIN readyState : OnClose(id)

SpecEdit == Init /\ [][EditNext]_vars

\* submissions and edits served so far, plus the milliseconds elapsed
HistorySteps == Len(posts) + Len(edits) + now

\* Submissions to two chats over time: each exchange streams at most one
\* chunk, messages are edited (content, role, chat) between submissions,
\* and the clock advances between some requests and not between others.
HistoryNext ==
  \/ /\ Cardinality(DOMAIN chats) < Cardinality(ChatIdSpace)
     /\ \E botId \in bots : CreateChat(botId)
  \/ /\ HistorySteps < HistoryMaxSteps
     /\ \E chatId \in DOMAIN chats : Submit(chatId, <<"hi">>)
  \/ \E e \in Exchanges : UpstreamRespond(e, TRUE)
  \/ \E e \in Exchanges : posts[e].deltas = << >> /\ StreamChunk(e, "Hel")
  \/ \E e \in Exchanges : StreamEnd(e)
  \/ /\ HistorySteps < HistoryMaxSteps
     /\ \E id \in DOMAIN messages, body \in EditBodies : EditMessage(id, body)
  \/ HistorySteps < HistoryMaxSteps /\ Tick

SpecHistory == Init /\ [][HistoryNext]_vars

\* settings updates, bot deletions and submissions served so far
RejectRequests == nSettings + Cardinality({1} \ bots) + Len(posts)

\* Submissions that are refused or accepted: the chat exists or not, the
\* content is absent, empty or not, a key is stored, cleared or absent, the
\* chat's bot is deleted or not.
RejectNext ==
  \/ /\ chats = << >>
     /\ \E botId \in bots : CreateChat(botId)
  \/ /\ RejectRequests < RejectMaxRequests
     /\ \E body \in {[apiKey |-> "sk-stored"], [apiKey |-> ""]} : UpdateSettings(body)
  \/ /\ RejectRequests < RejectMaxRequests
     /\ \E id \in bots : DeleteBot(id)
  \/ /\ RejectRequests < RejectMaxRequests
     /\ \E chatId \in ChatIdSpace, content \in PostContents : Submit(chatId, content)

SpecReject == Init /\ [][RejectNext]_vars

\* The completion client over a sequence of calls: the key, the URL and the
\* headers are changed, or set again to what they are, between submissions.
ClientNext ==
  \/ /\ chats = << >>
     /\ \E botId \in bots : CreateChat(botId)
  \/ /\ ConfigRequests < ClientMaxRequests
     /\ \E body \in ClientBodies : UpdateSettings(body)
  \/ /\ ConfigRequests < ClientMaxRequests
     /\ \E chatId \in DOMAIN chats : Submit(chatId, <<"hi">>)

SpecClient == Init /\ [][ClientNext]_vars

\* edits served and chunks delivered so far
RaceSteps == Len(edits) + TotalChunks(Len(posts))

\* One exchange streams while its messages are edited: every edit can fall
\* before, between and after the chunks, the final update and the catch.
RaceNext ==
  \/ /\ chats = << >>
     /\ \E botId \in bots : CreateChat(botId)
  \/ /\ posts = << >>
     /\ \E chatId \in DOMAIN chats : Submit(chatId, <<"hi">>)
  \/ \E e \in Exchanges, ok \in BOOLEAN : UpstreamRespond(e, ok)
  \/ \E e \in Exchanges, d \in Deltas :
       RaceSteps < RaceMaxSteps /\ StreamChunk(e, d)
  \/ \E e \in Exchanges : StreamEnd(e)
  \/ \E e \in Exchanges : StreamFail(e)
  \/ /\ RaceSteps < RaceMaxSteps
     /\ \E id \in DOMAIN messages, body \in EditBodies : EditMessage(id, body)

SpecRace == Init /\ [][RaceNext]_vars

\* ================================================================ claims
\* how many broadcasts of the given type were made about message id
EventCount(id, type) ==
  Cardinality({k \in 1..Len(PublishedOf(id)) : PublishedOf(id)[k].event.type = type})

\* message id was the target of a served edit that rewrote its content
ContentEdited(id) ==
  \E k \in 1..Len(edits) :
    edits[k].id = id /\ edits[k].status = 200 /\ "content" \in DOMAIN edits[k].body

\* the request a step appended to posts, if it appended one
Submitted == Len(posts') = Len(posts) + 1

\* C1: a submission naming an existing chat, carrying non-empty content, made
\* while an API key is resolvable and the chat's bot exists is answered 201
\* with the user message and a newly created assistant message whose content
\* is the empty string, in the response and in the store, when it is sent.
C1_PlaceholderEmptyAt201 ==
  [][Submitted =>
       LET p == Last(posts') IN
       /\ ( /\ p.chatId \in DOMAIN chats
            /\ p.content \notin {<< >>, <<"">>}
            /\ (settings.apiKey # "" \/ envKey # "")
            /\ chats[p.chatId].botId \in bots )
          => /\ p.status = 201
             /\ p.userMessage # << >> /\ p.botMessage # << >>
       /\ p.status = 201 =>
            LET bot == p.botMessage[1] IN
            /\ bot.id \notin DOMAIN messages
            /\ bot.id # p.userMessage[1].id
            /\ bot.role = "assistant"
            /\ bot.chatId = p.chatId
            /\ bot.content = ""
            /\ messages'[bot.id] = bot]_vars

C1_Witness ==
  \E e \in 1..Len(posts) :
    /\ posts[e].status = 201
    /\ posts[e].content = <<"hi">>
    /\ posts[e].botMessage[1].content = ""

\* C2: while no edit rewrites the assistant message, its persisted content
\* after the chunks D1..Dk is concat(D1..Dk); once the stream has ended it is
\* concat(D1..Dn) and message-complete was broadcast exactly once, and never
\* before the end.
C2_ContentIsConcatOfDeltas ==
  \A e \in Exchanges :
    LET p == posts[e]
        id == MessageId(e)
    IN /\ (p.pc \in {"Streaming", "Completed"} /\ ~ContentEdited(id))
            => messages[id].content = Concat(p.deltas)
       /\ p.pc = "Completed" => EventCount(id, "message-complete") = 1
       /\ p.pc # "Completed" => EventCount(id, "message-complete") = 0

C2_Witness ==
  \E e \in Exchanges :
    /\ posts[e].pc = "Completed"
    /\ posts[e].deltas = <<"Hel", "lo!">>
    /\ messages[MessageId(e)].content = "Hello!"
    /\ EventCount(MessageId(e), "message-complete") = 1

\* C3: when the completion client fails (the call is rejected, its answer
\* cannot be iterated, or the stream throws after any number of chunks) the
\* assistant message's content becomes the fallback text and stays so until
\* an edit rewrites it; exactly one message-error is broadcast for the
\* exchange and no message-complete ever is.
C3_FailureGivesFallback ==
  [][\A e \in Exchanges :
       LET id == MessageId(e) IN
       /\ (posts'[e].pc = "Failed" /\ posts[e].pc # "Failed")
            => messages'[id].content = FallbackContent
       /\ (posts[e].pc = "Failed" /\ messages'[id].content # messages[id].content)
            => /\ Len(edits') = Len(edits) + 1
               /\ Last(edits').id = id
       /\ posts'[e].pc = "Failed"
            => /\ EventCount(id, "message-error")' = 1
               /\ EventCount(id, "message-complete")' = 0
       /\ posts'[e].pc # "Failed" => EventCount(id, "message-error")' = 0]_vars

C3_Witness ==
  \E e \in Exchanges :
    /\ posts[e].pc = "Failed"
    /\ posts[e].upstream = "stream"
    /\ posts[e].deltas = <<"Hel">>
    /\ messages[MessageId(e)].content = FallbackContent
    /\ EventCount(MessageId(e), "message-error") = 1

\* C7: in non-streaming mode (useStreamingApi false) an exchange whose
\* upstream call succeeds ends Completed with the full answer as the
\* assistant message's content and a message-complete broadcast, not Failed.
C7_NonStreamingCompletes ==
  \A e \in Exchanges :
    (~posts[e].useStreaming /\ posts[e].upstream = "completion")
      => /\ posts[e].pc = "Completed"
         /\ messages[MessageId(e)].content = CompletionText
         /\ EventCount(MessageId(e), "message-complete") = 1
         /\ EventCount(MessageId(e), "message-error") = 0

\* C10: the role of a message never changes after its creation: the user
\* message and the placeholder of every exchange keep the roles they were
\* created with.
C10_RoleNeverChanges ==
  \A e \in Exchanges :
    /\ messages[posts[e].userMessage[1].id].role = posts[e].userMessage[1].role
    /\ messages[posts[e].botMessage[1].id].role = posts[e].botMessage[1].role

\* the message ids a step made a broadcast about
NewBroadcastIds ==
  {id \in DOMAIN published' : Len(published'[id]) > Len(PublishedOf(id))}

\* connection c is registered and bound to chatId
Bound(c, chatId) == c \in DOMAIN clients /\ clients[c].chatId = <<chatId>>

\* C4 as stated: a connection receives an event published for chat C if and
\* only if its binding is C at publish time; without a publish it receives
\* nothing.
C4_DeliveredIffBound ==
  [][\A c \in DOMAIN received :
       /\ \A id \in NewBroadcastIds :
            LET b == Last(published'[id]) IN
            IF Bound(c, b.chatId)
              THEN received'[c] = Append(received[c], b.event)
              ELSE received'[c] = received[c]
       /\ NewBroadcastIds = {} => received'[c] = received[c]]_vars

\* C4 amended: a connection receives an event published for chat C if and
\* only if, at publish time, its binding is C and its socket is open; a
\* connection that never joined, or that has rejoined another chat, receives
\* nothing of C, and without a publish nothing is received.
C4_DeliveredIffBoundAndOpen ==
  [][\A c \in DOMAIN received :
       /\ \A id \in NewBroadcastIds :
            LET b == Last(published'[id]) IN
            IF Bound(c, b.chatId) /\ readyState[c] = "OPEN"
              THEN received'[c] = Append(received[c], b.event)
              ELSE received'[c] = received[c]
       /\ NewBroadcastIds = {} => received'[c] = received[c]]_vars

\* a socket that received the first broadcast about a message of chat 1,
\* rejoined chat 2 and missed the second, beside one that never joined
C4_Witness ==
  \E c, d \in DOMAIN clients, id \in DOMAIN published :
    /\ Len(published[id]) = 2
    /\ published[id][1].chatId = 1
    /\ received[c] = <<published[id][1].event>>
    /\ clients[c].chatId = <<2>> /\ readyState[c] = "OPEN"
    /\ clients[d].chatId = << >> /\ received[d] = << >>

\* C5: once a socket has closed it receives nothing more and it is no longer
\* in the clients map: the registered connections are exactly the sockets
\* that connected and have not closed yet; deleting an id that is not in the
\* map leaves the map as it is.
C5_ClosedIsUnregistered ==
  [][/\ DOMAIN clients' = {c \in DOMAIN readyState' : readyState'[c] # "CLOSED"}
     /\ Cardinality(DOMAIN clients')
          = Cardinality(DOMAIN readyState')
              - Cardinality({c \in DOMAIN readyState' : readyState'[c] = "CLOSED"})
     /\ \A c \in DOMAIN readyState :
          readyState[c] = "CLOSED"
            => /\ received'[c] = received[c]
               /\ readyState'[c] = "CLOSED"
               /\ c \notin DOMAIN clients'
               /\ MapDelete(clients', c) = clients']_vars

\* a closed socket that had received one broadcast and missed a later one
C5_Witness ==
  \E c \in DOMAIN readyState, id \in DOMAIN published :
    /\ readyState[c] = "CLOSED"
    /\ c \notin DOMAIN clients
    /\ Len(published[id]) = 2
    /\ received[c] = <<published[id][1].event>>

\* the exchange whose placeholder is message id
ExchangeOf(id) == CHOOSE e \in Exchanges : MessageId(e) = id

\* where a broadcast of each type leaves its exchange
PcAfter(type) ==
  IF type = "message-update" THEN "Streaming"
  ELSE IF type = "message-complete" THEN "Completed" ELSE "Failed"

\* C9 as stated: a connection bound to the chat to which the send fails (its
\* socket is not open) is removed from the clients map by the publish; every
\* other connection bound to the chat receives the event and the exchange
\* goes on as if every send had succeeded.
C9_FailedSendRemovesConnection ==
  [][\A id \in NewBroadcastIds :
       LET b == Last(published'[id]) IN
       \A c \in DOMAIN clients :
         (Bound(c, b.chatId) /\ readyState[c] # "OPEN")
           => /\ c \notin DOMAIN clients'
              /\ \A d \in DOMAIN clients :
                   (Bound(d, b.chatId) /\ readyState[d] = "OPEN")
                     => received'[d] = Append(received[d], b.event)
              /\ posts'[ExchangeOf(id)].pc = PcAfter(b.event.type)]_vars

\* C9 amended: a connection bound to the chat whose socket is not open is
\* skipped by the publish and stays in the clients map (only its close event
\* removes it); every other connection bound to the chat whose socket is open
\* receives the event, and the exchange goes on as if every send had
\* succeeded.
C9_ClosedSocketSkipped ==
  [][\A id \in NewBroadcastIds :
       LET b == Last(published'[id]) IN
       \A c \in DOMAIN clients :
         (Bound(c, b.chatId) /\ readyState[c] # "OPEN")
           => /\ c \in DOMAIN clients' /\ clients'[c] = clients[c]
              /\ received'[c] = received[c]
              /\ \A d \in DOMAIN clients :
                   (Bound(d, b.chatId) /\ readyState[d] = "OPEN")
                     => received'[d] = Append(received[d], b.event)
              /\ posts'[ExchangeOf(id)].pc = PcAfter(b.event.type)]_vars

\* a closing socket still registered and bound to chat 1 that missed the
\* second broadcast, which an open socket bound to chat 1 received
C9_Witness ==
  \E c, d \in DOMAIN clients, id \in DOMAIN published :
    /\ Len(published[id]) = 2
    /\ readyState[c] = "CLOSING" /\ clients[c].chatId = <<1>>
    /\ received[c] = <<published[id][1].event>>
    /\ readyState[d] = "OPEN" /\ clients[d].chatId = <<1>>
    /\ received[d] = <<published[id][1].event, published[id][2].event>>

\* the request a step appended to edits, if it appended one
Edited == Len(edits') = Len(edits) + 1

\* the message-edited event of an edit of message id
EditedEvent(id, message) ==
  [type |-> "message-edited", messageId |-> id, message |-> <<message>>]

\* C6: an edit of an existing message whose body is a new content string is
\* served with 200 and overwrites the content, and nothing else, of the
\* message whatever its role; exactly one message-edited
\* broadcast carrying the updated message is made, for the message's chat,
\* and it reaches every open socket bound to that chat and no other socket.
C6_EditOverwritesAndEmitsOnce ==
  [][Edited =>
       LET r == Last(edits')
           new == r.body.content[2]
       IN (r.id \in DOMAIN messages /\ DOMAIN r.body = {"content"}
             /\ r.body.content[1] = "string")
            => LET old == messages[r.id]
                   ev == EditedEvent(r.id, [old EXCEPT !.content = new])
               IN /\ r.status = 200
                  /\ messages' = [messages EXCEPT ![r.id].content = new]
                  /\ r.message = <<messages'[r.id]>>
                  /\ DOMAIN published' = DOMAIN published \cup {r.id}
                  /\ \A id \in DOMAIN published' :
                       published'[id] =
                         IF id = r.id
                           THEN Append(PublishedOf(id),
                                       [chatId |-> old.chatId, event |-> ev])
                           ELSE published[id]
                  /\ \A c \in DOMAIN received :
                       received'[c] =
                         IF Bound(c, old.chatId) /\ readyState[c] = "OPEN"
                           THEN Append(received[c], ev)
                           ELSE received[c]]_vars

\* a served content edit of an assistant message, seen by a socket of its chat
C6_Witness ==
  \E k \in 1..Len(edits), c \in DOMAIN received :
    /\ edits[k].status = 200
    /\ edits[k].body = [content |-> <<"string", "edited">>]
    /\ messages[edits[k].id].role = "assistant"
    /\ messages[edits[k].id].content = "edited"
    /\ received[c] = <<EditedEvent(edits[k].id, messages[edits[k].id])>>

\* C8: every exchange that has created its placeholder reaches Completed or
\* Failed, when the upstream answers and its stream ends or throws; no
\* exchange stays in Dispatching or Streaming forever.
C8_EveryExchangeTerminates ==
  \A e \in 1..LiveMaxRequests :
    (e \in Exchanges)
      ~> (e \in Exchanges /\ posts[e].pc \in {"Completed", "Failed"})

\* two exchanges, one ended Completed and one ended Failed in mid-stream
\* after a chunk
C8_Witness ==
  \E e, f \in Exchanges :
    /\ posts[e].pc = "Completed"
    /\ posts[f].pc = "Failed" /\ posts[f].upstream = "stream"
    /\ posts[f].deltas # << >>

\* the events of the given types in a log of broadcasts or of frames
Updates(events) ==
  {k \in 1..Len(events) : events[k].type = "message-update"}
Terminals(events) ==
  {k \in 1..Len(events) : events[k].type \in {"message-complete", "message-error"}}

\* the events of the broadcasts made about message id
EventsOf(id) == [k \in 1..Len(PublishedOf(id)) |-> PublishedOf(id)[k].event]

\* within a log, the message-update contents about message id of exchange e
\* are the texts accumulated after ever more deltas, each longer than the
\* one before, and no message-update follows the terminal event
InDeltaOrder(events, e) ==
  /\ \A k \in Updates(events) :
       events[k].messageId = MessageId(e)
         => \E j \in 1..Len(posts[e].deltas) :
              events[k].content = Concat(SubSeq(posts[e].deltas, 1, j))
  /\ \A k, l \in Updates(events) :
       (k < l /\ events[k].messageId = MessageId(e)
          /\ events[l].messageId = MessageId(e))
         => Len(events[k].content) < Len(events[l].content)
  /\ \A k \in Terminals(events), l \in Updates(events) :
       (events[k].messageId = MessageId(e) /\ events[l].messageId = MessageId(e))
         => l < k
  /\ \A k \in Terminals(events) :
       (events[k].messageId = MessageId(e) /\ events[k].type = "message-complete")
         => events[k].message[1].content = Concat(posts[e].deltas)

\* C11: the broadcasts about an exchange's message follow the arrival of
\* the deltas: each message-update carries the text accumulated so far, which
\* is also the stored content at that moment, each is longer than the one
\* before and a prefix of the final text, and the terminal event comes after
\* all of them; a socket gets every frame appended to what it already got,
\* so it sees the events of its chat in publish order.
C11_EventsInDeltaOrder ==
  [][/\ \A e \in Exchanges :
          /\ InDeltaOrder(EventsOf(MessageId(e)), e)'
          /\ \A c \in DOMAIN received' : InDeltaOrder(received[c], e)'
     /\ \A id \in DOMAIN published' :
          /\ SubSeq(published'[id], 1, Len(PublishedOf(id))) = PublishedOf(id)
          /\ Len(published'[id]) <= Len(PublishedOf(id)) + 1
     /\ \A id \in NewBroadcastIds :
          LET ev == Last(published'[id]).event IN
          /\ ev.type = "message-update" => messages'[id].content = ev.content
          /\ \A c \in DOMAIN received :
               received'[c] \in {received[c], Append(received[c], ev)}
     /\ NewBroadcastIds = {}
          => \A c \in DOMAIN received : received'[c] = received[c]]_vars

\* a socket that got two message-update frames, "Hel" then "Hello!", and
\* then message-complete
C11_Witness ==
  \E c \in DOMAIN received :
    /\ Len(received[c]) = 3
    /\ received[c][1].type = "message-update" /\ received[c][1].content = "Hel"
    /\ received[c][2].type = "message-update" /\ received[c][2].content = "Hello!"
    /\ received[c][3].type = "message-complete"
    /\ received[c][3].message[1].content = "Hello!"

\* a request that was answered with an error is never taken up again
RejectedStaysRejected ==
  \A e \in 1..Len(posts) : posts[e].status # 201 => posts'[e] = posts[e]

\* C12 as stated: a submission naming a chat id that is not in the store is
\* answered 400; it stores no message, starts no upstream call and
\* broadcasts nothing.
C12_UnknownChatIs400 ==
  [][/\ Submitted =>
          LET p == Last(posts') IN
          p.chatId \notin DOMAIN chats
            => /\ p.status = 400
               /\ p.pc = "Rejected" /\ p.upstream = "none"
               /\ messages' = messages
               /\ published' = published /\ received' = received
     /\ RejectedStaysRejected]_vars

\* C12 amended: a submission naming a chat id that is not in the store is
\* answered 404; it stores no message, starts no upstream call, then or
\* later, and broadcasts nothing.
C12_UnknownChatIs404 ==
  [][/\ Submitted =>
          LET p == Last(posts') IN
          p.chatId \notin DOMAIN chats
            => /\ p.status = 404
               /\ p.pc = "Rejected" /\ p.upstream = "none"
               /\ messages' = messages
               /\ published' = published /\ received' = received
     /\ RejectedStaysRejected]_vars

\* a submission with content for a chat that does not exist, answered 404
C12_Witness ==
  \E e \in 1..Len(posts) :
    /\ posts[e].chatId \notin DOMAIN chats \cup deleted
    /\ posts[e].content = <<"hi">>
    /\ posts[e].status = 404 /\ posts[e].pc = "Rejected"
    /\ messages = << >>

\* C13: a submission without files to an existing chat is rejected by the
\* validation (400, no message stored, no exchange started) exactly when
\* its content is absent or empty.
C13_RejectedIffEmpty ==
  [][Submitted =>
       LET p == Last(posts')
           invalid == p.status = 400 /\ messages' = messages /\ p.pc = "Rejected"
       IN p.chatId \in DOMAIN chats
            => (invalid <=> p.content \in {<< >>, <<"">>})]_vars

\* C14: a valid submission to an existing chat, made when neither the
\* stored settings nor the environment hold an API key, is answered 400
\* before the placeholder is created: no assistant message is stored, no
\* upstream call starts, then or later, and nothing is broadcast.
C14_NoKeyNoPlaceholder ==
  [][/\ Submitted =>
          LET p == Last(posts') IN
          (p.chatId \in DOMAIN chats /\ InsertMessageOk(p.content)
             /\ settings.apiKey = "" /\ envKey = "")
            => /\ p.status = 400 /\ p.botMessage = << >>
               /\ p.pc = "Rejected" /\ p.upstream = "none"
               /\ \A id \in DOMAIN messages' \ DOMAIN messages :
                    messages'[id].role # "assistant"
               /\ published' = published /\ received' = received
     /\ RejectedStaysRejected]_vars

\* a submission with content refused for want of a key: its user message is
\* stored, no assistant message is
C14_Witness ==
  \E e \in 1..Len(posts) :
    /\ posts[e].status = 400 /\ posts[e].content = <<"hi">>
    /\ posts[e].chatId \in DOMAIN chats
    /\ settings.apiKey = "" /\ envKey = ""
    /\ \E id \in DOMAIN messages : messages[id].content = "hi"
    /\ \A id \in DOMAIN messages : messages[id].role = "user"
    /\ published = << >>

\* C15: an accepted submission is answered once, with 201 and the two
\* messages, in the step that starts the upstream call and before anything
\* is broadcast about the placeholder; whatever happens to the exchange
\* afterwards, the status and the body of that response never change.
C15_OneResponseBeforeEvents ==
  [][/\ Submitted =>
          LET p == Last(posts') IN
          p.status = 201
            => /\ p.pc = "Dispatching" /\ p.upstream = "pending"
               /\ p.botMessage[1].id \notin DOMAIN published'
               /\ published' = published /\ received' = received
     /\ \A e \in 1..Len(posts) :
          /\ posts'[e].status = posts[e].status
          /\ posts'[e].userMessage = posts[e].userMessage
          /\ posts'[e].botMessage = posts[e].botMessage
     /\ \A id \in NewBroadcastIds :
          Last(published'[id]).event.type
              \in {"message-update", "message-complete", "message-error"}
            => \E e \in Exchanges : MessageId(e) = id /\ posts[e].status = 201]_vars

\* an exchange whose upstream call was rejected: it ended Failed, one
\* message-error was broadcast, and its response is still the 201
C15_Witness ==
  \E e \in Exchanges :
    /\ posts[e].pc = "Failed" /\ posts[e].upstream = "error"
    /\ posts[e].status = 201 /\ posts[e].botMessage[1].content = ""
    /\ EventCount(MessageId(e), "message-error") = 1

\* the fields of a settings response that hold strings
StringFields == {"apiUrl", "customApiHeaders"}

\* C16: the body of the latest GET or PATCH /api/settings response has no
\* apiKey field and no string field holding the stored key, and its
\* hasApiKey is true exactly when a key is stored or the environment has one,
\* whatever hasApiKey value the settings themselves store.
C16_NoKeyInSettingsResponse ==
  settingsResponse # << >>
    => LET r == settingsResponse[1] IN
       /\ "apiKey" \notin DOMAIN r
       /\ settings.apiKey # ""
            => \A f \in DOMAIN r \cap StringFields : r[f] # settings.apiKey
       /\ r.hasApiKey = (settings.apiKey # "" \/ envKey # "")
       /\ \A f \in DOMAIN r \ {"hasApiKey", "hasEnvApiHeaders"} : r[f] = settings[f]

\* a key is stored, the environment has none, the settings themselves say
\* hasApiKey false, and the response says hasApiKey true
C16_Witness ==
  /\ settingsResponse # << >>
  /\ settings.apiKey = "sk-stored" /\ envKey = ""
  /\ settings.hasApiKey = FALSE
  /\ settingsResponse[1].hasApiKey = TRUE
  /\ nSettings = MaxSettingsUpdates

\* the exchange reaches Completed or Failed
Terminates(e) ==
  (e \in Exchanges) ~> (e \in Exchanges /\ posts[e].pc \in {"Completed", "Failed"})

C18_UnknownMessageIs404 ==
  [][Edited =>
       LET r == Last(edits') IN
       r.id \notin DOMAIN messages
         => /\ r.status = 404 /\ r.message = << >>
            /\ messages' = messages
            /\ published' = published /\ received' = received]_vars

\* an edit with a valid body for an id just past the stored messages,
\* answered 404, with both messages of the exchange as they were
C18_Witness ==
  \E k \in 1..Len(edits) :
    /\ edits[k].id \notin DOMAIN messages
    /\ edits[k].body = [content |-> <<"string", "edited">>]
    /\ edits[k].status = 404
    /\ DOMAIN messages = {1, 2}
    /\ messages[1].content = "hi" /\ messages[2].content = ""
    /\ published = << >>

\* the configuration an exchange works with
ConfigOf(p) ==
  [apiKey |-> p.apiKey, customHeaders |-> p.customHeaders,
   useStreaming |-> p.useStreaming, client |-> p.client]

\* C19: an accepted submission takes its configuration from the settings as
\* they are when it is served, whatever the earlier submissions used (the
\* cached client is replaced when the key or the headers differ); a settings
\* update served while an exchange is in flight changes nothing of that
\* exchange's configuration, and the answer is read as a stream exactly when
\* streaming was on at the submission.
C19_SettingsReadPerSubmission ==
  [][/\ Submitted =>
          LET p == Last(posts') IN
          p.status = 201
            => /\ p.apiKey = Or(settings.apiKey, envKey)
               /\ p.customHeaders = settings.customApiHeaders
               /\ p.useStreaming = (settings.useStreamingApi # FALSE)
               /\ p.client # << >>
               /\ p.client[1].apiKey = p.apiKey
               /\ p.client[1].defaultHeaders = ParsedHeaders(p.customHeaders)
     /\ \A e \in Exchanges :
          /\ ConfigOf(posts'[e]) = ConfigOf(posts[e])
          /\ (posts[e].pc = "Dispatching" /\ posts'[e].pc = "Streaming")
               => posts[e].useStreaming
          /\ (posts[e].pc = "Dispatching" /\ posts'[e].upstream = "completion")
               => ~posts[e].useStreaming]_vars

\* the environment key served the first exchange, which is still streaming
\* after a key was stored; the second exchange uses the stored key
C19_Witness ==
  \E e, f \in Exchanges :
    /\ e < f
    /\ posts[e].pc = "Streaming"
    /\ posts[e].client[1].apiKey = "sk-env"
    /\ settings.apiKey = "sk-stored"
    /\ posts[f].client[1].apiKey = "sk-stored"

\* C20: an exchange whose custom header string is not valid JSON fails in
\* the completion client: no client makes an upstream request for it, no
\* delta arrives, and it is Failed.
C20_MalformedHeadersFail ==
  \A e \in Exchanges :
    (Truthy(posts[e].customHeaders) /\ JsonParse(posts[e].customHeaders) = << >>)
      => /\ posts[e].pc = "Failed"
         /\ posts[e].client = << >>
         /\ posts[e].deltas = << >>

\* the k-th smallest element of a set of numbers
NthSmallest(ids, k) == CHOOSE m \in ids : Cardinality({j \in ids : j < m}) = k - 1

\* C21: the history handed to the completion client for an exchange is one
\* synthesized system message followed by the role and content of every
\* message stored under the chat, in creation (id) order, the exchange's own
\* placeholder excepted; its last entry is the user message just submitted.
C21_HistoryIsSystemThenStored ==
  [][(Submitted /\ Last(posts').status = 201) =>
       LET p == Last(posts')
           h == p.history
           own == p.botMessage[1].id
           ids == {m \in DOMAIN messages' :
                     messages'[m].chatId = p.chatId /\ m # own}
       IN /\ messages'[own].chatId = p.chatId
          /\ Len(h) = 1 + Cardinality(ids)
          /\ h[1] = [role |-> "system", content |-> SystemPrompt]
          /\ \A k \in 1..Cardinality(ids) :
               h[k + 1] = [role |-> messages'[NthSmallest(ids, k)].role,
                           content |-> messages'[NthSmallest(ids, k)].content]
          /\ p.userMessage[1].id = NthSmallest(ids, Cardinality(ids))
          /\ Last(h) = [role |-> "user", content |-> p.content[1]]
     ]_vars

\* a second exchange of a chat started a millisecond or more after the
\* first: its history holds the earlier user message and the earlier answer
C21_Witness ==
  \E e \in Exchanges :
    /\ Len(posts[e].history) >= 4
    /\ posts[e].history[3].role = "assistant"
    /\ posts[e].history[3].content = "Hel"
    /\ messages[1].createdAt < posts[e].userMessage[1].createdAt

\* the ids of the two messages exchange e created
IdsOf(e) == {posts[e].userMessage[1].id, posts[e].botMessage[1].id}

\* the step is one of exchange e: its position or its stream state changed
StepOf(e) == e \in Exchanges /\ posts'[e] # posts[e]

\* C22: exchanges work on disjoint message ids.  Any two exchanges hold four
\* distinct ids; an id handed out is larger than every id handed out before
\* and stays the id of the same message; a step of an exchange (a chunk, the
\* end of the stream, the catch block) changes no stored message except the
\* exchange's own placeholder, and a submission changes no message that was
\* stored before it.
C22_ExchangesOnDisjointIds ==
  [][/\ \A e \in Exchanges' : Cardinality(IdsOf(e)') = 2
     /\ \A e1, e2 \in Exchanges' : e1 # e2 => IdsOf(e1)' \cap IdsOf(e2)' = {}
     /\ \A m \in DOMAIN messages : m \in DOMAIN messages' /\ messages'[m].id = m
     /\ \A n \in DOMAIN messages' \ DOMAIN messages :
          /\ messages'[n].id = n
          /\ \A m \in DOMAIN messages : m < n
     /\ \A e \in Exchanges : StepOf(e) =>
          /\ DOMAIN messages' = DOMAIN messages
          /\ \A m \in DOMAIN messages \ {MessageId(e)} : messages'[m] = messages[m]
     /\ Submitted => \A m \in DOMAIN messages : messages'[m] = messages[m]
    ]_vars

\* two exchanges of one chat ran at the same time and both wrote: the first
\* is still streaming and has persisted a chunk, the second has already
\* failed and persisted the fallback text
C22_Witness ==
  \E e1, e2 \in Exchanges :
    /\ e1 < e2
    /\ posts[e1].chatId = posts[e2].chatId
    /\ posts[e1].pc = "Streaming" /\ posts[e1].fullContent # ""
    /\ messages[MessageId(e1)].content = posts[e1].fullContent
    /\ posts[e2].pc = "Failed"
    /\ messages[MessageId(e2)].content = FallbackContent

\* the sockets a step sent a frame to
Recipients == {c \in DOMAIN received : received'[c] # received[c]}

\* C23: a publish is atomic with respect to register, join and unregister.
\* The sockets a publish sends to are exactly those that are in the map,
\* bound to the chat and open when it starts, each gets the frame once, and
\* the publish changes no registration; a step that is not a publish sends
\* nothing.  Whatever the interleaving, the map holds one entry for each
\* socket that connected and has not closed, and a step changes it by one
\* registration (a new unbound entry), one binding, or one removal (of a
\* socket that closed).
C23_PublishIsAtomic ==
  [][/\ \A id \in NewBroadcastIds :
          LET b == Last(published'[id]) IN
          /\ Recipients = {c \in DOMAIN clients :
                             clients[c].chatId = <<b.chatId>> /\ readyState[c] = "OPEN"}
          /\ \A c \in Recipients : received'[c] = Append(received[c], b.event)
          /\ clients' = clients /\ readyState' = readyState
     /\ Cardinality(NewBroadcastIds) <= 1
     /\ NewBroadcastIds = {} => Recipients = {}
     /\ \A c \in DOMAIN readyState' :
          (c \in DOMAIN clients') = (readyState'[c] # "CLOSED")
     /\ DOMAIN clients' \subseteq DOMAIN readyState'
     /\ clients' # clients =>
          \/ \E c \in DOMAIN readyState' \ DOMAIN readyState :
               clients' = (c :> [chatId |-> << >>]) @@ clients
          \/ \E c \in DOMAIN clients, chatId \in ChatIdSpace :
               clients' = [clients EXCEPT ![c].chatId = <<chatId>>]
          \/ \E c \in DOMAIN clients :
               /\ clients' = MapDelete(clients, c)
               /\ readyState'[c] = "CLOSED"
    ]_vars

\* two publishes interleaved with connects, joins and a close: one socket
\* got the first frame and closed, another registered and joined after the
\* first publish and got only the second
C23_Witness ==
  \E c, d \in DOMAIN readyState :
    /\ readyState[c] = "CLOSED" /\ c \notin DOMAIN clients
    /\ Len(received[c]) = 1 /\ received[c][1].type = "message-update"
    /\ d \in DOMAIN clients /\ readyState[d] = "OPEN"
    /\ Len(received[d]) = 1 /\ received[d][1].type = "message-complete"

\* the texts the exchange that owns message id has written to it so far:
\* the snapshot after each chunk with content, and the fallback text
SnapshotsOf(id) ==
  UNION {{Concat(SubSeq(posts[e].deltas, 1, k)) : k \in 0..Len(posts[e].deltas)}
           \cup (IF posts[e].pc = "Failed" THEN {FallbackContent} ELSE {})
         : e \in {x \in Exchanges : MessageId(x) = id}}

\* the texts the served edits have written to message id so far
EditsOf(id) ==
  {edits[k].body.content[2] :
     k \in {j \in 1..Len(edits) : /\ edits[j].id = id /\ edits[j].status = 200
                                  /\ "content" \in DOMAIN edits[j].body}}

\* the exchange, if any, whose placeholder is message id and that took the
\* step: << >> or <<e>>
WriterOf(id) ==
  IF \E e \in Exchanges : MessageId(e) = id /\ StepOf(e)
    THEN <<CHOOSE e \in Exchanges : MessageId(e) = id /\ StepOf(e)>>
    ELSE << >>

\* C24: edits and streaming updates of one message are last-writer-wins on
\* the content field.  A served content edit leaves exactly its text; a chunk
\* with content and the end of the stream leave exactly the concatenation of
\* the deltas received so far, whatever an edit wrote in between; the catch
\* block leaves exactly the fallback text; no other step changes the
\* content.  So the persisted content is always the value of the latest
\* write: the text the message was created with, a snapshot, the fallback
\* or an edit's text, never a combination of two of them.
C24_LastWriterWins ==
  [][/\ \A id \in DOMAIN messages :
          LET old == messages[id].content
              new == messages'[id].content
              w == WriterOf(id)
          IN IF Edited /\ Last(edits').id = id /\ Last(edits').status = 200
                  /\ "content" \in DOMAIN Last(edits').body
               THEN new = Last(edits').body.content[2]
             ELSE IF w # << >> /\ posts'[w[1]].pc = "Failed"
               THEN new = FallbackContent
             ELSE IF w # << >> /\ posts'[w[1]].pc = "Completed"
               THEN new = Concat(posts'[w[1]].deltas)
             ELSE IF w # << >> /\ posts'[w[1]].deltas # posts[w[1]].deltas
                       /\ Last(posts'[w[1]].deltas) # ""
               THEN new = Concat(posts'[w[1]].deltas)
             ELSE new = old
     /\ \A id \in DOMAIN messages' :
          messages'[id].content \in {"", "hi"} \cup SnapshotsOf(id)' \cup EditsOf(id)'
    ]_vars

\* the placeholder was edited while its exchange was streaming, and the
\* chunk that came after the edit overwrote the edit's text
C24_Witness ==
  \E e \in Exchanges :
    /\ posts[e].pc = "Streaming"
    /\ posts[e].deltas = <<"Hel", "lo!">>
    /\ ContentEdited(MessageId(e))
    /\ messages[MessageId(e)].content = "Hello!"

\* the key, URL and headers a call resolves from the settings it read
ResolvedOf(p) ==
  [apiKey |-> p.apiKey, baseURL |-> p.apiUrl,
   defaultHeaders |-> ParsedHeaders(p.customHeaders)]

\* what a client object was constructed with
BuiltFrom(client) ==
  [apiKey |-> client.apiKey, baseURL |-> client.baseURL,
   defaultHeaders |-> client.defaultHeaders]

\* the clients handed to the calls made so far
ClientsUsed == {posts[e].client[1] : e \in Exchanges}

\* C25: over any sequence of completion calls, the client a call uses was
\* built from exactly the key, URL and headers that call resolved.  The call
\* reuses the cached client (the same object) when the three equal those of
\* the previous call, and gets a newly constructed one when any differs; a
\* client object, once constructed, keeps what it was built with, so the
\* client of an earlier call is not changed by a later one.
C25_ClientMatchesCall ==
  [][/\ (Submitted /\ Last(posts').status = 201) =>
          LET p == Last(posts')
              c == p.client[1]
          IN /\ p.apiKey = Or(settings.apiKey, envKey)
             /\ p.apiUrl = Or(settings.apiUrl, DefaultApiUrl)
             /\ p.customHeaders = settings.customApiHeaders
             /\ BuiltFrom(c) = ResolvedOf(p)
             /\ openaiClient' = <<c>>
             /\ IF Exchanges = {}
                  THEN c \notin ClientsUsed
                ELSE LET q == posts[CHOOSE e \in Exchanges : \A x \in Exchanges : x <= e]
                     IN IF ResolvedOf(q) = ResolvedOf(p)
                          THEN c = q.client[1] /\ openaiClient' = openaiClient
                          ELSE \A d \in ClientsUsed : d.id # c.id
     /\ \A e \in Exchanges : posts'[e].client = posts[e].client
     /\ \A c, d \in ClientsUsed' : c.id = d.id => c = d
     /\ ~Submitted => openaiClient' = openaiClient
    ]_vars

\* three calls: the second changed the URL and got a new client, the third
\* resolved what the second had and reused its client; the first call's
\* client still holds the default URL
C25_Witness ==
  \E e, f, g \in Exchanges :
    /\ e < f /\ f < g
    /\ posts[e].client[1].baseURL = DefaultApiUrl
    /\ posts[f].client[1].baseURL = "https://proxy.example/v1"
    /\ posts[f].client[1].id # posts[e].client[1].id
    /\ posts[g].client = posts[f].client
    /\ openaiClient = posts[g].client

\* the step served a submission with an error status
Refused == Submitted /\ Last(posts').status # 201

\* C26 as stated: a submission answered with an error status (unknown chat,
\* invalid message, no API key, owning bot missing) leaves the message store
\* as it was.
C26_RefusedLeavesStore ==
  [][Refused => messages' = messages]_vars

\* C26 amended: a submission refused for an unknown chat or an invalid
\* message leaves the message store as it was; one refused because no API
\* key is resolvable (400) or because the chat's bot is missing (404) has
\* stored the user message of the submission, under the next id, and
\* nothing else: no placeholder is created and no stored message changes.
C26_RefusedAfterValidationKeepsUserMessage ==
  [][Refused =>
       LET p == Last(posts')
           n == Cardinality(DOMAIN messages) + 1
       IN IF p.chatId \notin DOMAIN chats \/ p.content = << >>
            THEN messages' = messages
            ELSE /\ p.status = IF Or(settings.apiKey, envKey) = "" THEN 400 ELSE 404
                 /\ DOMAIN messages' = DOMAIN messages \cup {n}
                 /\ n \notin DOMAIN messages
                 /\ messages'[n] = [id |-> n, chatId |-> p.chatId, role |-> "user",
                                    content |-> p.content[1], createdAt |-> now]
                 /\ \A m \in DOMAIN messages : messages'[m] = messages[m]
                 /\ p.userMessage = << >> /\ p.botMessage = << >>
    ]_vars

\* one submission was refused with 400 for want of a key and one with 404
\* because the bot was deleted, and the user messages of both are stored
C26_Witness ==
  \E e, f \in 1..Len(posts) :
    /\ posts[e].status = 400 /\ posts[e].content = <<"hi">>
    /\ posts[e].chatId \in DOMAIN chats
    /\ posts[f].status = 404 /\ posts[f].chatId \in DOMAIN chats
    /\ bots = {}
    /\ Cardinality(DOMAIN messages) = 2
    /\ \A m \in DOMAIN messages : messages[m].role = "user"

\* C27: when the stream of an exchange ends, the final persist writes the
\* concatenation of all deltas over whatever the placeholder holds, so a
\* content edit applied at any earlier moment of the exchange does not
\* survive it, and the message carried by the one message-complete event is
\* the stored message with that content.
C27_FinalPersistOverridesEdits ==
  [][\A e \in Exchanges :
       (StepOf(e) /\ posts'[e].pc = "Completed") =>
         LET id == MessageId(e)
             b == Last(published'[id])
         IN /\ Len(published'[id]) = Len(PublishedOf(id)) + 1
            /\ b.chatId = posts[e].chatId
            /\ b.event.type = "message-complete"
            /\ b.event.messageId = id
            /\ b.event.message = <<messages'[id]>>
            /\ messages'[id].content = Concat(posts[e].deltas)
            /\ posts'[e].deltas = posts[e].deltas
            /\ EventCount(id, "message-complete") = 0
    ]_vars

\* the placeholder was edited during the stream and the exchange completed:
\* the stored content and the content in message-complete are the deltas'
\* concatenation, not the edit's text
C27_Witness ==
  \E e \in Exchanges :
    /\ posts[e].pc = "Completed"
    /\ posts[e].deltas = <<"Hel", "lo!">>
    /\ ContentEdited(MessageId(e))
    /\ messages[MessageId(e)].content = "Hello!"
    /\ Last(published[MessageId(e)]).event.type = "message-complete"
    /\ Last(published[MessageId(e)]).event.message[1].content = "Hello!"

\* the content an event of an exchange announces for its message
AnnouncedContent(ev) ==
  IF ev.type = "message-update" THEN ev.content
  ELSE IF ev.type = "message-complete" THEN ev.message[1].content
  ELSE FallbackContent

\* the broadcasts made about message id once the step is done
PublishedAfter(id) == IF id \in DOMAIN published' THEN published'[id] ELSE << >>

\* C28: persist precedes broadcast.  When an exchange emits message-update
\* the store already holds exactly the announced content for that message;
\* when it emits message-complete the store holds the final content, the
\* concatenation of the deltas; when it emits message-error the store holds
\* the fallback text.  An exchange makes one write at a time: each of its
\* writes is completed and announced by exactly one event before its next
\* step starts, and it emits no event without the write.
C28_PersistPrecedesBroadcast ==
  [][\A e \in Exchanges :
       LET id == MessageId(e)
           before == Len(PublishedOf(id))
           after == Len(PublishedAfter(id))
       IN StepOf(e) =>
            /\ after <= before + 1
            /\ after = before + 1 =>
                 LET ev == Last(published'[id]).event IN
                 /\ ev.messageId = id
                 /\ ev.type \in {"message-update", "message-complete", "message-error"}
                 /\ messages'[id].content = AnnouncedContent(ev)
                 /\ ev.type = "message-update" =>
                      /\ ev.content = Concat(posts'[e].deltas)
                      /\ posts'[e].pc = "Streaming"
                 /\ ev.type = "message-complete" =>
                      /\ ev.message = <<messages'[id]>>
                      /\ messages'[id].content = Concat(posts[e].deltas)
                 /\ ev.type = "message-error" => posts'[e].pc = "Failed"
            /\ after = before =>
                 /\ messages' = messages
                 /\ posts'[e].pc = "Streaming"
    ]_vars

\* the placeholder was edited during the stream; the snapshot "Hello!" was
\* persisted and announced after the edit, and the store holds it
C28_Witness ==
  \E e \in Exchanges :
    LET id == MessageId(e) IN
    /\ id \in DOMAIN published
    /\ \E k \in 1..Len(published[id]) : published[id][k].event.type = "message-edited"
    /\ Last(published[id]).event.type = "message-update"
    /\ Last(published[id]).event.content = "Hello!"
    /\ messages[id].content = "Hello!"

\* ------------------------------------------------ the browser showing a chat
\* the chat the viewer has open, and the hub's id of the viewer's socket
ViewerChat == 1
ViewerConn == 1

\* oldData.map(msg => msg.id === data.messageId ? {...msg, content} : msg)
Patched(oldData, data) ==
  [i \in 1..Len(oldData) |->
     IF oldData[i].id = data.messageId
       THEN [oldData[i] EXCEPT !.content = data.content]
       ELSE oldData[i]]

\* queryClient.setQueryData(key, oldData => ...): undefined stays undefined
SetQueryData(cached, data) ==
  IF cached = << >> THEN << >> ELSE <<Patched(cached[1], data)>>

\* queryClient.invalidateQueries: the query is stale and is fetched again; a
\* response still under way is dropped
InvalidateQueries(v) == [v EXCEPT !.invalidated = TRUE, !.response = << >>]

\* the onMessage callback of ChatInterface handles the next frame
OnMessage ==
  /\ ViewerConn \in DOMAIN received
  /\ viewer.seen < Len(received[ViewerConn])
  /\ LET data == received[ViewerConn][viewer.seen + 1]
         v == [viewer EXCEPT !.seen = @ + 1]
     IN viewer' = IF data.type = "message-update"
                    THEN [v EXCEPT !.data = SetQueryData(@, data)]
                  ELSE IF data.type \in {"message-complete", "message-edited"}
                    THEN InvalidateQueries(v)
                  ELSE v
  /\ UNCHANGED <<bots, chats, deleted, messages, settings, envKey, hook, now,
                 lastConfig, openaiClient, posts, edits, nSettings,
                 settingsResponse, clients, readyState, received, published>>

\* the messages query runs (first mount, or after an invalidation):
\* GET /api/chats/:chatId/messages is served
QueryFetch ==
  /\ GetChat(ViewerChat) # << >>
  /\ viewer.response = << >>
  /\ viewer.invalidated \/ viewer.data = << >>
  /\ viewer' = [viewer EXCEPT !.invalidated = FALSE,
                              !.response = <<GetMessagesByChatId(messages, ViewerChat)>>]
  /\ UNCHANGED <<bots, chats, deleted, messages, settings, envKey, hook, now,
                 lastConfig, openaiClient, posts, edits, nSettings,
                 settingsResponse, clients, readyState, received, published>>

\* the response of the messages query reaches the browser
QueryArrives ==
  /\ viewer.response # << >>
  /\ viewer' = [viewer EXCEPT !.data = viewer.response, !.response = << >>]
  /\ UNCHANGED <<bots, chats, deleted, messages, settings, envKey, hook, now,
                 lastConfig, openaiClient, posts, edits, nSettings,
                 settingsResponse, clients, readyState, received, published>>

\* the response of the viewer's own POST reaches sendMessageMutation:
\* onSuccess invalidates the messages query, onError only shows a toast
OnSuccess ==
  /\ viewer.acked < Len(posts)
  /\ LET v == [viewer EXCEPT !.acked = @ + 1] IN
     viewer' = IF posts[viewer.acked + 1].status = 201
                 THEN InvalidateQueries(v)
                 ELSE v
  /\ UNCHANGED <<bots, chats, deleted, messages, settings, envKey, hook, now,
                 lastConfig, openaiClient, posts, edits, nSettings,
                 settingsResponse, clients, readyState, received, published>>

\* the viewer's socket is registered under the chat it shows
ViewerJoined ==
  /\ ViewerConn \in DOMAIN clients
  /\ clients[ViewerConn].chatId = <<ViewerChat>>

\* the viewer opens the chat, joins it over its socket, submits one message
\* and follows the exchange to its end; the socket is never closed
ViewerNext ==
  \/ /\ chats = << >>
     /\ \E botId \in bots : CreateChat(botId)
  \/ /\ readyState = << >>
     /\ Connect
  \/ /\ GetChat(ViewerChat) # << >>
     /\ ~ViewerJoined
     /\ Join(ViewerConn, ViewerChat)
  \/ /\ posts = << >>
     /\ ViewerJoined
     /\ Submit(ViewerChat, <<"hi">>)
  \/ \E e \in Exchanges, ok \in BOOLEAN : UpstreamRespond(e, ok)
  \/ \E e \in Exchanges, d \in Deltas :
       TotalChunks(Len(posts)) < ViewerMaxChunks /\ StreamChunk(e, d)
  \/ \E e \in Exchanges : StreamEnd(e)
  \/ \E e \in Exchanges : StreamFail(e)
  \/ OnMessage
  \/ QueryFetch
  \/ QueryArrives
  \/ OnSuccess

\* every request is answered, every frame is delivered and handled
SpecViewer ==
  /\ Init /\ [][ViewerNext]_vars
  /\ WF_vars(Settle(1))
  /\ WF_vars(OnMessage) /\ WF_vars(QueryFetch) /\ WF_vars(QueryArrives)
  /\ WF_vars(OnSuccess)

\* what the viewer shows for message id: <<content>>, or << >> when the
\* message is not in its cache
ViewerContent(id) ==
  IF viewer.data = << >> THEN << >>
  ELSE LET shown == SelectSeq(viewer.data[1], LAMBDA m : m.id = id)
       IN IF shown = << >> THEN << >> ELSE <<shown[1].content>>

\* C29: for a viewer that stays joined to the chat during the whole
\* exchange, once the exchange is Completed or Failed the content the viewer
\* shows for the assistant message eventually equals the persisted content
C29_ViewerConverges ==
  (1 \in Exchanges /\ posts[1].pc \in {"Completed", "Failed"})
    ~> (1 \in Exchanges
          /\ ViewerContent(MessageId(1)) = <<messages[MessageId(1)].content>>)

\* ------------------------------------------------------ the useWebSocket hook
\* reconnectAttempts = 5 (the default; ChatInterface passes onMessage only)
ReconnectAttempts == 5

\* new WebSocket(wsUrl) as made by connect() of the render with this chatId;
\* disconnected and reconnect record what happened to the socket: disconnect()
\* ran while it was socket.current, and its close scheduled a reconnect
\* after that
NewWebSocket(chatId) ==
  [readyState |-> "CONNECTING", chatId |-> chatId, joined |-> << >>,
   disconnected |-> FALSE, reconnect |-> FALSE]

\* socket.current?.readyState === WebSocket.OPEN
CurrentIsOpen(h) == h.socket # 0 /\ h.sockets[h.socket].readyState = "OPEN"

\* connect(), of the render with this chatId
connect(h, chatId) ==
  IF CurrentIsOpen(h) THEN h
  ELSE [h EXCEPT !.status = "connecting",
                 !.sockets = Append(@, NewWebSocket(chatId)),
                 !.socket = Len(h.sockets) + 1]

\* disconnect()
disconnect(h) ==
  IF h.socket = 0 THEN h
  ELSE LET cleared == [h EXCEPT !.reconnectTimerId = << >>,
                                !.sockets[h.socket].disconnected = TRUE]
       IN IF CurrentIsOpen(h)
            THEN [cleared EXCEPT !.status = "closing",
                                 !.sockets[h.socket].readyState = "CLOSING"]
            ELSE cleared

HookUnchanged ==
  UNCHANGED <<bots, chats, deleted, messages, settings, envKey, viewer, now,
              lastConfig, openaiClient, posts, edits, nSettings,
              settingsResponse, clients, readyState, received, published>>

\* the component mounts: useEffect runs connect() (automaticOpen)
Mount ==
  /\ ~hook.mounted /\ hook.sockets = << >>
  /\ hook' = connect([hook EXCEPT !.mounted = TRUE], hook.chatId)
  /\ HookUnchanged

\* a render changes chatId (or another dependency of connect): the cleanup
\* of the effect runs disconnect(), the effect runs the new connect(), the
\* second effect sends join over an OPEN socket.current
Rerender(chatId) ==
  /\ hook.mounted
  /\ Len(hook.sockets) < HookMaxSockets
  /\ LET h == connect(disconnect([hook EXCEPT !.chatId = chatId]), chatId) IN
     hook' = IF CurrentIsOpen(h)
               THEN [h EXCEPT !.sockets[h.socket].joined = <<chatId>>]
               ELSE h
  /\ HookUnchanged

\* the caller of the hook runs the disconnect it returned
Disconnect ==
  /\ hook.mounted
  /\ hook' = disconnect(hook)
  /\ HookUnchanged

\* the component unmounts: the cleanup of the effect runs disconnect()
Unmount ==
  /\ hook.mounted
  /\ hook' = [disconnect(hook) EXCEPT !.mounted = FALSE]
  /\ HookUnchanged

\* the handshake of socket i succeeds: onopen; the join frame goes over
\* socket.current, which send() rejects while that socket is CONNECTING and
\* drops when it is CLOSING or CLOSED
SocketOpen(i) ==
  /\ i \in DOMAIN hook.sockets
  /\ hook.sockets[i].readyState = "CONNECTING"
  /\ LET h == [hook EXCEPT !.sockets[i].readyState = "OPEN",
                           !.status = "open", !.reconnectCount = 0]
     IN hook' = IF CurrentIsOpen(h)
                  THEN [h EXCEPT !.sockets[h.socket].joined =
                                    <<hook.sockets[i].chatId>>]
                  ELSE h
  /\ HookUnchanged

\* socket i closes: onclose; a failed handshake or a dropped connection is
\* not clean
SocketClose(i, wasClean) ==
  /\ i \in DOMAIN hook.sockets
  /\ hook.sockets[i].readyState \in {"CONNECTING", "OPEN", "CLOSING"}
  /\ hook.sockets[i].readyState = "CONNECTING" => ~wasClean
  /\ LET h == [hook EXCEPT !.sockets[i].readyState = "CLOSED",
                           !.status = "closed"]
     IN hook' = IF hook.reconnectCount < ReconnectAttempts /\ ~wasClean
                  THEN [h EXCEPT !.reconnectCount = @ + 1,
                                 !.reconnectTimerId = <<hook.sockets[i].chatId>>,
                                 !.sockets[i].reconnect =
                                    hook.sockets[i].disconnected]
                  ELSE h
  /\ HookUnchanged

\* the reconnect timer fires: connect() of the render that made the socket
TimerFires ==
  /\ hook.reconnectTimerId # << >>
  /\ Len(hook.sockets) < HookMaxSockets
  /\ hook' = connect([hook EXCEPT !.reconnectTimerId = << >>],
                     hook.reconnectTimerId[1])
  /\ HookUnchanged

SocketNext ==
  \/ Mount
  \/ \E chatId \in ChatIdSpace : Rerender(chatId)
  \/ Disconnect
  \/ Unmount
  \/ \E i \in 1..HookMaxSockets : SocketOpen(i)
  \/ \E i \in 1..HookMaxSockets, wasClean \in BOOLEAN : SocketClose(i, wasClean)
  \/ TimerFires

SpecSocket == Init /\ [][SocketNext]_vars

\* the sockets of the hook that are connecting or open
LiveSockets ==
  {i \in DOMAIN hook.sockets : hook.sockets[i].readyState \in {"CONNECTING", "OPEN"}}

\* C30: once disconnect() has run for a socket (called by the user of the
\* hook, on unmount, or by the effect cleanup when chatId changes), in
\* whatever state the socket was, that socket is not open and does not become
\* open, its close schedules no reconnect, and the hook never has more than
\* one socket that is connecting or open
C30_DisconnectedSocketStaysClosed ==
  /\ \A i \in DOMAIN hook.sockets :
       hook.sockets[i].disconnected =>
         /\ hook.sockets[i].readyState # "OPEN"
         /\ ~hook.sockets[i].reconnect
  /\ Cardinality(LiveSockets) <= 1
====
